---- MODULE Spec2Model ----
(***************************************************************************)
(* Model of socketio-server/src/socket.rs (Socket: event dispatch and ack  *)
(* correlation) and socketio-server/src/operators.rs.                      *)
(***************************************************************************)
EXTENDS Integers, Sequences, FiniteSets, Bags, TLC

(* ------------------------------ bounds -------------------------------- *)
\* number of send_with_ack calls made on the connection
MaxCalls == 2
\* number of handler futures running at once
MaxTasks == 2
\* longest list of binary frames a handler returns
MaxFrames == 2
MaxChain == 3

Calls == 1..MaxCalls
\* ack ids an inbound ack packet may bear: every id that can be issued, and
\* one that is never issued
AckIds == 1..(MaxCalls + 1)

(* --------------------------- JSON values ------------------------------ *)
\* serde_json::Value, as far as the code looks into it: the variant, the
\* number of a Number and the elements of an Array.
JVal(t, n, items) == [type |-> t, n |-> n, items |-> items]
JNull == JVal("Null", 0, <<>>)
JNum(n) == JVal("Number", n, <<>>)
JStr == JVal("String", 0, <<>>)
JArr(items) == JVal("Array", 0, items)
\* json!({})
EmptyObject == JVal("Object", 0, <<>>)

\* the shapes a caller or a handler declares (the type parameter V / Param)
Shapes == {"Value", "i64"}

\* serde_json::from_value::<shape>(v): Ok(v) when v has the shape, else Err
FromValueOk(v, shape) ==
    CASE shape = "Value" -> TRUE
      [] shape = "i64" -> v.type = "Number"
      [] shape = "Vec<i64>" ->
            /\ v.type = "Array"
            /\ \A i \in 1..Len(v.items) : v.items[i].type = "Number"
      [] OTHER -> FALSE

\* the payloads of inbound ack packets
AckData == {JNum(1), JStr}
\* one binary frame (Vec<u8>); the bytes are not looked at
Frame == "f"
\* Option<Vec<Vec<u8>>>
NoBin == [some |-> FALSE, frames |-> <<>>]
SomeBin(b) == [some |-> TRUE, frames |-> b]

(* ------------------------------ state --------------------------------- *)
VARIABLES
    ack_counter,    \* Socket.ack_counter
    ack_message,    \* Socket.ack_message: ack id -> tx (the call owning rx)
    calls,          \* the send_with_ack futures, by call
    issued,         \* the ack ids in the order fetch_add issued them
    arrived,        \* the ack ids of the ack packets recv has processed
    disconnected,   \* Socket::disconnect was called
    recv_ret,       \* what the last recv call returned
    message_handlers, \* Socket.message_handlers: event name -> handler
    tasks,          \* the handler futures tokio::spawn started, still running
    done,           \* the handler future that completed last, and what it sent
    registered,     \* event name -> the callback of the last on_event call
    opts,           \* Operators.opts: the BroadcastOptions
    binary,         \* Operators.binary
    chain           \* the operator calls made on the Operators value, in order

ackVars == <<ack_counter, ack_message, calls, issued, arrived, disconnected>>
dispatchVars == <<message_handlers, tasks, done, registered>>
opVars == <<opts, binary, chain>>
vars == <<ack_counter, ack_message, calls, issued, arrived, disconnected,
          recv_ret, message_handlers, tasks, done, registered,
          opts, binary, chain>>

\* the oneshot channel of a call: empty, holding the value tx.send gave it,
\* or closed because tx was dropped without sending; from is the ack id of
\* the packet the value was taken from
EmptyChan == [st |-> "empty", data |-> JNull, bin |-> NoBin, from |-> 0]
NoResult == [kind |-> "none", data |-> JNull, bin |-> NoBin]
Result(k, d, b) == [kind |-> k, data |-> d, bin |-> b]

\* sends counts the tx.send calls made on the tx of the call
IdleCall == [pc |-> "idle", ack |-> 0, shape |-> "Value", timer |-> FALSE,
             chan |-> EmptyChan, sends |-> 0, result |-> NoResult]

\* Option<i64>
NoAck == [some |-> FALSE, id |-> 0]
SomeAck(i) == [some |-> TRUE, id |-> i]

NoDone == [st |-> "none", ack |-> NoAck,
           result |-> [kind |-> "none", data |-> [rust |-> "i64", n |-> 0], bin |-> <<>>],
           out |-> <<>>]

\* Socket::new
(* ----------------------------- operators ------------------------------- *)
\* BroadcastFlags::Local, ::Broadcast and ::Timeout(d): d is part of the value
\* HashSet compares
Flag(kind) == [kind |-> kind, d |-> 0]
TimeoutFlag(d) == [kind |-> "Timeout", d |-> d]

\* BroadcastOptions::new(sid)
BroadcastOptionsNew ==
    [flags |-> {}, rooms |-> <<>>, except |-> <<>>, sid |-> "sid"]

\* Operators::new(ns, sid), before any operator is called
OperatorsNew ==
    /\ opts = BroadcastOptionsNew
    /\ binary = NoBin
    /\ chain = <<>>

Init ==
    /\ ack_counter = 0
    /\ ack_message = <<>>
    /\ calls = [c \in Calls |-> IdleCall]
    /\ issued = <<>>
    /\ arrived = {}
    /\ disconnected = FALSE
    /\ recv_ret = "none"
    /\ message_handlers = <<>>
    /\ tasks = EmptyBag
    /\ done = NoDone
    /\ registered = <<>>
    /\ OperatorsNew

(* -------------------------- send_with_ack ----------------------------- *)
\* (variant of AckId: the value fetch_add returns is used as it is)
AckIdStale(counter) == counter
\* self.ack_counter.fetch_add(1, SeqCst) + 1: the id the call gets
AckId(counter) == counter + 1

\* oneshot::channel() and the atomic fetch_add
\* (the calls are numbered in the order they start)
FetchAdd(c) ==
    /\ calls[c].pc = "idle"
    /\ IF c = 1 THEN TRUE ELSE calls[c - 1].pc # "idle"
    /\ calls' = [calls EXCEPT ![c].pc = "insert", ![c].ack = AckId(ack_counter)]
    /\ ack_counter' = ack_counter + 1
    /\ issued' = Append(issued, AckId(ack_counter))
    /\ UNCHANGED <<ack_message, arrived, disconnected, recv_ret, dispatchVars, opVars>>

\* HashMap::insert(ack, tx): a tx already stored under the key is dropped,
\* which closes its channel
MapInsert(m, k, v) == [x \in (DOMAIN m) \cup {k} |-> IF x = k THEN v ELSE m[x]]
MapRemove(m, k) == [x \in (DOMAIN m) \ {k} |-> m[x]]

CloseChan(cs, c) ==
    IF cs[c].chan.st = "empty" THEN [cs EXCEPT ![c].chan.st = "closed"] ELSE cs

\* (variant of Insert: the entry is stored under the value fetch_add returned)
InsertStaleKey(c) ==
    /\ calls[c].pc = "insert"
    /\ ack_message' = MapInsert(ack_message, calls[c].ack - 1, c)
    /\ calls' = [calls EXCEPT ![c].pc = "send"]
    /\ UNCHANGED <<ack_counter, issued, arrived, disconnected, recv_ret, dispatchVars, opVars>>

\* self.ack_message.write().unwrap().insert(ack, tx)
Insert(c) ==
    /\ calls[c].pc = "insert"
    /\ LET k == calls[c].ack
           dropped == IF k \in DOMAIN ack_message
                      THEN CloseChan(calls, ack_message[k]) ELSE calls
       IN /\ ack_message' = MapInsert(ack_message, k, c)
          /\ calls' = [dropped EXCEPT ![c].pc = "send"]
    /\ UNCHANGED <<ack_counter, issued, arrived, disconnected, recv_ret, dispatchVars, opVars>>

\* packet.inner.set_ack_id(ack); self.send(packet, payload)?
\* Client::emit / emit_bin succeeds or fails
Send(c) ==
    /\ calls[c].pc = "send"
    /\ \E ok \in BOOLEAN :
         calls' = IF ok
                  THEN [calls EXCEPT ![c].pc = "await"]
                  ELSE [calls EXCEPT ![c].pc = "done",
                                     ![c].result = Result("Transport", JNull, NoBin)]
    /\ UNCHANGED <<ack_counter, ack_message, issued, arrived, disconnected, recv_ret,
                   dispatchVars, opVars>>

\* the deadline of tokio::time::timeout passes
TimerFire(c) ==
    /\ calls[c].pc = "await"
    /\ ~calls[c].timer
    /\ calls' = [calls EXCEPT ![c].timer = TRUE]
    /\ UNCHANGED <<ack_counter, ack_message, issued, arrived, disconnected, recv_ret,
                   dispatchVars, opVars>>

\* what tokio::time::timeout(timeout, rx).await?? and line 242 make of the
\* channel: Timeout polls rx first and the deadline second
AwaitResult(call, shape) ==
    CASE call.chan.st = "sent" ->
            IF FromValueOk(call.chan.data, shape)
            THEN Result("Ok", call.chan.data, call.chan.bin)
            ELSE Result("Serde", JNull, NoBin)
      [] call.chan.st = "closed" -> Result("Closed", JNull, NoBin)
      [] OTHER -> Result("Timeout", JNull, NoBin)

Poll(c) ==
    /\ calls[c].pc = "await"
    /\ calls[c].chan.st # "empty" \/ calls[c].timer
    /\ \E shape \in Shapes :
         calls' = [calls EXCEPT ![c].pc = "done", ![c].shape = shape,
                                ![c].result = AwaitResult(calls[c], shape)]
    /\ UNCHANGED <<ack_counter, ack_message, issued, arrived, disconnected, recv_ret,
                   dispatchVars, opVars>>

(* ---------------------------- recv: acks ------------------------------ *)
\* tx.send(v).ok(): the value reaches the channel unless rx was dropped (the
\* future of the call has returned)
TxSend(cs, c, d, b, ack) ==
    IF cs[c].pc \in {"insert", "send", "await"} /\ cs[c].chan.st = "empty"
    THEN [cs EXCEPT ![c].chan = [st |-> "sent", data |-> d, bin |-> b, from |-> ack],
                    ![c].sends = @ + 1]
    ELSE [cs EXCEPT ![c].sends = @ + 1]

\* (variant of AckLookup: an id without entry falls back to the oldest entry)
AckLookupOldest(m, ack) ==
    IF ack \in DOMAIN m THEN {ack}
    ELSE IF m = <<>> THEN {}
    ELSE {CHOOSE k \in DOMAIN m : \A x \in DOMAIN m : k <= x}
\* (variant of AckLookup: any pending entry is taken)
AckLookupAny(m, ack) == IF m = <<>> THEN {} ELSE {CHOOSE k \in DOMAIN m : TRUE}
\* the key recv_ack / recv_bin_ack find in the table
AckLookup(m, ack) == IF ack \in DOMAIN m THEN {ack} ELSE {}

\* (variant of AckRemove: the table is cleared)
AckRemoveAll(m, ack) == <<>>
\* (variant of AckRemove: the entry is read and left in the table)
AckRemoveNone(m, ack) == m
\* the table after ack_message.write().unwrap().remove(&ack)
AckRemove(m, ack) == MapRemove(m, ack)

RecvAckBody(d, b, ack) ==
    /\ arrived' = arrived \cup {ack}
    /\ LET found == AckLookup(ack_message, ack)
       IN IF found # {}
          THEN \E k \in found :
                 /\ ack_message' = AckRemove(ack_message, k)
                 /\ calls' = TxSend(calls, ack_message[k], d, b, ack)
          ELSE UNCHANGED <<ack_message, calls>>
    /\ recv_ret' = "Ok"
    /\ UNCHANGED <<ack_counter, issued, disconnected, dispatchVars, opVars>>

\* recv(PacketData::EventAck(data, ack_id))
recv_ack(data, ack) == RecvAckBody(data, NoBin, ack)

\* recv(PacketData::BinaryAck(packet, ack))
recv_bin_ack(data, bin, ack) == RecvAckBody(data, SomeBin(bin), ack)

(* ---------------------------- disconnect ------------------------------ *)
\* self.ns.disconnect(self.sid): nothing of the Socket is touched
disconnect ==
    /\ ~disconnected
    /\ disconnected' = TRUE
    /\ UNCHANGED <<ack_counter, ack_message, calls, issued, arrived, recv_ret,
                   dispatchVars, opVars>>

(* ------------------------- event handlers ------------------------------ *)
\* the event names and the callbacks application code registers; a callback
\* declares the shape of its parameter (the type V of on_event)
Events == {"e1", "e2"}
Callbacks == {"h1", "h2"}
ParamShape(cb) == IF cb = "h1" THEN "i64" ELSE "Vec<i64>"

\* (variant of on_event: a name that has a handler keeps it)
on_eventKeepFirst(e, cb) ==
    /\ message_handlers' = IF e \in DOMAIN message_handlers
                            THEN message_handlers
                            ELSE MapInsert(message_handlers, e, cb)
    /\ registered' = MapInsert(registered, e, cb)
    /\ UNCHANGED <<ackVars, opVars, recv_ret, tasks, done>>

\* on_event(event, callback): HashMap::insert replaces the handler of the name
on_event(e, cb) ==
    /\ message_handlers' = MapInsert(message_handlers, e, cb)
    /\ registered' = MapInsert(registered, e, cb)
    /\ UNCHANGED <<ackVars, opVars, recv_ret, tasks, done>>

\* the payloads of inbound events
EventData == {JNum(1), JArr(<<JNum(1)>>), JArr(<<JNum(1), JNum(1)>>)}
\* the ack ids inbound events bear
EventAcks == {NoAck, SomeAck(1)}

\* MessageHandler::call, lines 84-93: an array of one element is replaced by
\* its element
Unwrap(v) ==
    IF v.type = "Array" /\ Len(v.items) = 1 THEN v.items[1] ELSE v

\* what a handler returns: Result<Ack<RetV>, Error>.  The data are values of
\* the Rust type RetV.
RustI64(n) == [rust |-> "i64", n |-> n]
\* a map whose keys are not strings: serde_json refuses to serialize it
RustTupleKeyMap == [rust |-> "HashMap<(i64,i64),i64>", n |-> 0]
RetData == {RustI64(1), RustTupleKeyMap}
FrameLists == {[i \in 1..n |-> Frame] : n \in 0..MaxFrames}

HandlerResult(k, d, b) == [kind |-> k, data |-> d, bin |-> b]
HandlerResults ==
    {HandlerResult("None", RustI64(0), <<>>), HandlerResult("Err", RustI64(0), <<>>)}
    \cup {HandlerResult("Data", d, <<>>) : d \in RetData}
    \cup {HandlerResult("Bin", RustI64(0), b) : b \in FrameLists}
    \cup {HandlerResult("DataBin", d, b) : d \in RetData, b \in FrameLists}

\* serde_json::to_value(&data)
ToValueOk(d) == d.rust = "i64"
ToValue(d) == IF d.rust = "i64" THEN JNum(d.n) ELSE JNull

\* the packet send_ack hands to Client::emit: Packet::ack(ns, data, ack_id)
AckPacket(ack_id, v) ==
    [kind |-> "EventAck", ack |-> ack_id, data |-> v, nbin |-> 0, bin |-> NoBin]
\* the packet send_bin_ack hands to Client::emit_bin:
\* Packet::bin_ack(ns, data, bin.len(), ack_id) with the frames
BinAckPacket(ack_id, v, b) ==
    [kind |-> "BinaryAck", ack |-> ack_id, data |-> v, nbin |-> Len(b),
     bin |-> SomeBin(b)]

\* Socket::send_ack: nothing is transmitted when the data do not serialize
send_ack(ack_id, d) ==
    IF ToValueOk(d) THEN <<AckPacket(ack_id, ToValue(d))>> ELSE <<>>

\* Socket::send_bin_ack with data of type RetV
send_bin_ack(ack_id, d, b) ==
    IF ToValueOk(d) THEN <<BinAckPacket(ack_id, ToValue(d), b)>> ELSE <<>>

\* (variants of AckPackets: the frames of Ack::DataBin are left out; the
\* closure runs on the error of the handler as well)
AckPacketsDropFrames(ack, res) ==
    IF ~ack.some THEN <<>>
    ELSE CASE res.kind = "Bin" -> <<BinAckPacket(ack.id, EmptyObject, res.bin)>>
           [] res.kind = "Data" -> send_ack(ack.id, res.data)
           [] res.kind = "DataBin" -> send_ack(ack.id, res.data)
           [] OTHER -> <<>>

AckPacketsOnErr(ack, res) ==
    IF ~ack.some THEN <<>>
    ELSE CASE res.kind = "Bin" -> <<BinAckPacket(ack.id, EmptyObject, res.bin)>>
           [] res.kind = "Data" -> send_ack(ack.id, res.data)
           [] res.kind = "DataBin" -> send_bin_ack(ack.id, res.data, res.bin)
           [] res.kind = "None" -> <<>>
           [] OTHER -> <<AckPacket(ack.id, EmptyObject)>>

\* the packets the spawned future transmits when the handler completes with
\* res (lines 97-107): fut.map_ok(..) for an event with an ack id, fut alone
\* for one without
AckPackets(ack, res) ==
    IF ~ack.some THEN <<>>
    ELSE CASE res.kind = "Bin" -> <<BinAckPacket(ack.id, EmptyObject, res.bin)>>
           [] res.kind = "Data" -> send_ack(ack.id, res.data)
           [] res.kind = "DataBin" -> send_bin_ack(ack.id, res.data, res.bin)
           [] res.kind = "None" -> <<>>
           [] OTHER -> <<>>

\* (variant of HandlerOf: a name without handler falls back to the others)
HandlerOfFallback(m, e) ==
    IF e \in DOMAIN m THEN {m[e]} ELSE {m[x] : x \in DOMAIN m}

\* the handler recv_event / recv_bin_event find for the name
HandlerOf(m, e) == IF e \in DOMAIN m THEN {m[e]} ELSE {}

\* (variants of Call: the future of the handler is awaited before call
\* returns, so that no other handler runs meanwhile; the error of from_value
\* is dropped and the handler started all the same)
CallInline(cb, v, p, ack) ==
    IF FromValueOk(Unwrap(v), ParamShape(cb))
    THEN /\ tasks = EmptyBag
         /\ tasks' = tasks (+) SetToBag({[cb |-> cb, param |-> Unwrap(v),
                                          bin |-> p, ack |-> ack]})
         /\ recv_ret' = "Ok"
    ELSE /\ tasks' = tasks
         /\ recv_ret' = "Err"

CallIgnoringError(cb, v, p, ack) ==
    /\ BagCardinality(tasks) < MaxTasks
    /\ tasks' = tasks (+) SetToBag({[cb |-> cb, param |-> Unwrap(v),
                                     bin |-> p, ack |-> ack]})
    /\ recv_ret' = "Ok"

\* MessageHandler::call up to tokio::spawn: the payload is unwrapped and
\* deserialized into the parameter of the callback; an error returns before
\* the callback is invoked
Call(cb, v, p, ack) ==
    IF FromValueOk(Unwrap(v), ParamShape(cb))
    THEN /\ BagCardinality(tasks) < MaxTasks
         /\ tasks' = tasks (+) SetToBag({[cb |-> cb, param |-> Unwrap(v),
                                          bin |-> p, ack |-> ack]})
         /\ recv_ret' = "Ok"
    ELSE /\ tasks' = tasks
         /\ recv_ret' = "Err"

RecvEventBody(e, v, p, ack) ==
    /\ LET found == HandlerOf(message_handlers, e)
       IN IF found # {}
          THEN \E cb \in found : Call(cb, v, p, ack)
          ELSE tasks' = tasks /\ recv_ret' = "Ok"
    /\ UNCHANGED <<ackVars, opVars, message_handlers, done, registered>>

\* recv(PacketData::Event(e, data, ack))
recv_event(e, data, ack) == RecvEventBody(e, data, NoBin, ack)

\* recv(PacketData::BinaryEvent(e, packet, ack))
recv_bin_event(e, data, bin, ack) == RecvEventBody(e, data, SomeBin(bin), ack)

\* the running handler future t completes with res; the task ends
Complete(t, res) ==
    /\ BagIn(t, tasks)
    /\ done' = [st |-> "done", ack |-> t.ack, result |-> res,
                out |-> AckPackets(t.ack, res)]
    /\ tasks' = tasks (-) SetToBag({t})
    /\ UNCHANGED <<ackVars, opVars, recv_ret, message_handlers, registered>>

(* ------------------------- operators: calls --------------------------- *)
\* the room parameters (RoomParam: one room, or a list of rooms), the
\* durations and the attachments application code passes
RoomParams == {<<"a">>, <<"b">>, <<"a", "b">>, <<"a", "a", "b">>}
Durations == {1, 2}
Binaries == {<<>>, <<Frame>>}

\* itertools unique() on one iterator: an element equal to an earlier element
\* of that iterator is dropped
RECURSIVE Unique(_)
Unique(s) ==
    IF s = <<>> THEN <<>>
    ELSE LET r == Unique(SubSeq(s, 1, Len(s) - 1))
             x == s[Len(s)]
         IN IF \E i \in 1..Len(r) : r[i] = x THEN r ELSE Append(r, x)

\* one call of the chain, as the ghost chain records it
OpCall(op, rooms, d) == [op |-> op, rooms |-> rooms, d |-> d]

Chained(op, rooms, d) ==
    /\ Len(chain) < MaxChain
    /\ chain' = Append(chain, OpCall(op, rooms, d))
    /\ UNCHANGED <<ackVars, recv_ret, dispatchVars>>

\* to(rooms): Vec::extend with the unique rooms of the parameter
to(rooms) ==
    /\ opts' = [opts EXCEPT !.rooms = opts.rooms \o Unique(rooms),
                            !.flags = opts.flags \cup {Flag("Broadcast")}]
    /\ binary' = binary
    /\ Chained("to", rooms, 0)

\* except(rooms)
except(rooms) ==
    /\ opts' = [opts EXCEPT !.except = opts.except \o Unique(rooms),
                            !.flags = opts.flags \cup {Flag("Broadcast")}]
    /\ binary' = binary
    /\ Chained("except", rooms, 0)

local ==
    /\ opts' = [opts EXCEPT !.flags = opts.flags \cup {Flag("Local")}]
    /\ binary' = binary
    /\ Chained("local", <<>>, 0)

broadcast ==
    /\ opts' = [opts EXCEPT !.flags = opts.flags \cup {Flag("Broadcast")}]
    /\ binary' = binary
    /\ Chained("broadcast", <<>>, 0)

\* timeout(d): HashSet::insert of Timeout(d)
timeout(d) ==
    /\ opts' = [opts EXCEPT !.flags = opts.flags \cup {TimeoutFlag(d)}]
    /\ binary' = binary
    /\ Chained("timeout", <<>>, d)

\* bin(binary)
bin(b) ==
    /\ binary' = SomeBin(b)
    /\ opts' = opts
    /\ Chained("bin", <<>>, 0)

(* --------------------------- specification ---------------------------- *)
NextAck ==
    \/ \E c \in Calls : FetchAdd(c)
    \/ \E c \in Calls : Insert(c)
    \/ \E c \in Calls : Send(c)
    \/ \E c \in Calls : TimerFire(c)
    \/ \E c \in Calls : Poll(c)
    \/ \E d \in AckData, a \in AckIds : recv_ack(d, a)
    \/ \E a \in AckIds : recv_bin_ack(JNum(2), <<Frame>>, a)
    \/ disconnect

\* ack correlation: send_with_ack, the inbound acks, the timers, disconnect
SpecAck == Init /\ [][NextAck]_vars

\* a step of the future of a send_with_ack call, or the expiry of its timer
CallStep == \E c \in Calls : Insert(c) \/ Send(c) \/ TimerFire(c) \/ Poll(c)

\* the runtime polls a future that can make progress, and the timers of
\* tokio::time::timeout expire
FairSpecAck == SpecAck /\ WF_vars(CallStep)

\* a connection on which n send_with_ack calls wait for their acks
Waiting(n) ==
    /\ ack_counter = n
    /\ ack_message = [k \in 1..n |-> k]
    /\ calls = [c \in Calls |-> IF c <= n
                                 THEN [IdleCall EXCEPT !.pc = "await", !.ack = c]
                                 ELSE IdleCall]
    /\ issued = [k \in 1..n |-> k]
    /\ arrived = {}
    /\ disconnected = FALSE

InitDispatch ==
    /\ Waiting(1)
    /\ recv_ret = "none"
    /\ message_handlers = <<>>
    /\ tasks = EmptyBag
    /\ done = NoDone
    /\ registered = <<>>
    /\ OperatorsNew

NextDispatch ==
    \/ \E e \in Events, cb \in Callbacks : on_event(e, cb)
    \/ \E e \in Events, v \in EventData, ack \in EventAcks : recv_event(e, v, ack)
    \/ \E e \in Events, v \in EventData, ack \in EventAcks :
          recv_bin_event(e, v, <<Frame>>, ack)
    \/ \E t \in BagToSet(tasks), res \in HandlerResults : Complete(t, res)

\* event dispatch: on_event, the inbound events, the handler futures
SpecDispatch == InitDispatch /\ [][NextDispatch]_vars

NextOperators ==
    \/ \E rooms \in RoomParams : to(rooms)
    \/ \E rooms \in RoomParams : except(rooms)
    \/ local
    \/ broadcast
    \/ \E d \in Durations : timeout(d)
    \/ \E b \in Binaries : bin(b)

\* the chains of operator calls on a fresh Operators value
SpecOperators == Init /\ [][NextOperators]_vars

(* ------------------------- ack correlation ---------------------------- *)
Returned(c) == calls[c].pc = "done"
\* the future of the call holds rx and has not returned
Pending(c) == calls[c].pc \in {"insert", "send", "await"}
TimedOut(c) == Returned(c) /\ calls[c].result.kind = "Timeout"

\* C1: when a send_with_ack call has ended with a Timeout error, the
\* pending-ack table no longer contains the ack id the call registered.
C1_TimeoutRemovesEntry ==
    \A c \in Calls : TimedOut(c) => calls[c].ack \notin DOMAIN ack_message

C3_AckIdsIncreasing ==
    /\ Len(issued) > 0 => issued[1] = 1
    /\ \A i, j \in 1..Len(issued) : i < j => issued[i] < issued[j]
    /\ \A c, e \in Calls :
          (c # e /\ calls[c].pc # "idle" /\ calls[e].pc # "idle")
              => calls[c].ack # calls[e].ack
    /\ \A k \in DOMAIN ack_message : calls[ack_message[k]].ack = k

\* two calls are pending at once
C3_Witness ==
    /\ Len(issued) >= 2
    /\ \E c, e \in Calls : c # e /\ calls[c].pc = "await" /\ calls[e].pc = "await"
                           /\ Cardinality(DOMAIN ack_message) >= 2

\* an ack packet bearing id a is processed
RecvAckOf(a) ==
    \/ \E d \in AckData : recv_ack(d, a)
    \/ recv_bin_ack(JNum(2), <<Frame>>, a)

\* an ack packet with payload d and frames b is processed while call c waits
\* and its entry is in the table under the id of the packet: the channel of c
\* holds d and b afterwards
DeliversTo(c, d, b) ==
    (/\ Pending(c) /\ calls[c].ack \in DOMAIN ack_message
     /\ RecvAckBody(d, b, calls[c].ack)) =>
        /\ calls'[c].chan.st = "sent"
        /\ calls'[c].chan.data = d /\ calls'[c].chan.bin = b

\* C4 as stated: a call whose channel was resolved returns the payload and
\* the frames its channel was given, which came from an ack packet bearing
\* its id, and a call for whose id no ack was received fails with Timeout.
C4_ReturnsPayloadOfItsAck ==
    \A c \in Calls : Returned(c) =>
        /\ calls[c].chan.st = "sent" =>
              /\ calls[c].chan.from = calls[c].ack
              /\ calls[c].result = Result("Ok", calls[c].chan.data, calls[c].chan.bin)
        /\ calls[c].ack \notin arrived => calls[c].result.kind = "Timeout"

\* C4, amended: of the calls whose packet was transmitted, one whose channel
\* was resolved was given the payload and the frames of an ack packet bearing
\* its id, returns them when the payload has the shape the caller expects and
\* fails with a deserialization error when it has not; one for whose id no
\* ack was received fails with Timeout.
C4_ReturnsPayloadIfShapeFits ==
    /\ [](\A c \in Calls : (Returned(c) /\ calls[c].result.kind # "Transport") =>
            /\ calls[c].chan.st = "sent" =>
                  /\ calls[c].chan.from = calls[c].ack
                  /\ IF FromValueOk(calls[c].chan.data, calls[c].shape)
                     THEN calls[c].result =
                            Result("Ok", calls[c].chan.data, calls[c].chan.bin)
                     ELSE calls[c].result.kind = "Serde"
            /\ calls[c].ack \notin arrived => calls[c].result.kind = "Timeout")
    /\ [][\A c \in Calls :
            /\ \A d \in AckData : DeliversTo(c, d, NoBin)
            /\ DeliversTo(c, JNum(2), SomeBin(<<Frame>>))
            /\ calls[c].chan.st = "sent" => calls'[c].chan = calls[c].chan]_vars

\* one call returned the frames of a binary ack while an ack of another id
\* was received, one failed on the shape of its reply
C4_Witness ==
    /\ \E c \in Calls : /\ Returned(c) /\ calls[c].result.kind = "Ok"
                        /\ calls[c].result.bin = SomeBin(<<Frame>>)
                        /\ calls[c].shape = "i64"
                        /\ \E a \in arrived : a # calls[c].ack
    /\ \E c \in Calls : Returned(c) /\ calls[c].result.kind = "Serde"

\* C5: when disconnect is called, every waiter of the connection is failed
\* with Closed and the pending-ack table is emptied.
C5_TeardownFailsWaiters ==
    [][(~disconnected /\ disconnected') =>
          /\ ack_message' = <<>>
          /\ \A c \in Calls : Pending(c) =>
                \/ calls'[c].chan.st = "closed"
                \/ calls'[c].result.kind = "Closed"]_vars

\* C6: when an ack arrives for a call that has timed out, the id of the call
\* is absent from the pending-ack table, the result of the call stays Timeout
\* and no other waiter is resolved or removed.
C6_LateAckDiscarded ==
    [][\A c \in Calls : (TimedOut(c) /\ RecvAckOf(calls[c].ack)) =>
          /\ calls[c].ack \notin DOMAIN ack_message
          /\ calls' = calls
          /\ ack_message' = ack_message]_vars

\* C11: an ack packet whose id is not in the pending-ack table is ignored:
\* recv returns success, the table is unchanged and no waiter is resolved.
C11_UnknownAckIgnored ==
    [][\A a \in AckIds : (a \notin DOMAIN ack_message /\ RecvAckOf(a)) =>
          /\ recv_ret' = "Ok"
          /\ ack_message' = ack_message
          /\ calls' = calls]_vars

\* an ack bearing an id that was never issued was received while a call
\* waited; the call still waits
C11_Witness ==
    /\ \E a \in arrived : a > ack_counter
    /\ \E c \in Calls : /\ calls[c].pc = "await" /\ calls[c].chan.st = "empty"
                        /\ calls[c].ack \in DOMAIN ack_message

\* a step of the wait of call c that ends it or lets its timer expire
TimeoutStep(c) == TimerFire(c) \/ Poll(c)

\* C17: an ack for id a removes the entry a and no other, resolves the
\* waiter of a and no other; the timeout of a call leaves the table and all
\* other calls as they were.
C17_PendingAcksIndependent ==
    [][/\ \A a \in AckIds : RecvAckOf(a) =>
             /\ DOMAIN ack_message' = DOMAIN ack_message \ {a}
             /\ \A k \in DOMAIN ack_message' : ack_message'[k] = ack_message[k]
             /\ \A c \in Calls :
                   IF a \in DOMAIN ack_message /\ ack_message[a] = c
                   THEN Pending(c) => calls'[c].chan.st = "sent"
                   ELSE calls'[c] = calls[c]
       /\ \A c \in Calls : TimeoutStep(c) =>
             /\ ack_message' = ack_message
             /\ \A e \in Calls \ {c} : calls'[e] = calls[e]]_vars

\* of two waiting calls one was resolved by its ack, the other still waits
\* with its entry in the table
C17_Witness ==
    \E c, e \in Calls :
        /\ c # e /\ calls[c].chan.st = "sent" /\ calls[c].ack \notin DOMAIN ack_message
        /\ calls[e].pc = "await" /\ calls[e].chan.st = "empty"
        /\ calls[e].ack \in DOMAIN ack_message

\* C18: a call that returned the transport error has left no entry for its id
\* in the pending-ack table.
C18_FailedSendLeavesNoEntry ==
    \A c \in Calls :
        (Returned(c) /\ calls[c].result.kind = "Transport")
            => calls[c].ack \notin DOMAIN ack_message

\* C19: while the packet of a call has been handed to the transport and
\* neither an ack bearing its id nor its timeout has been processed, the id is
\* in the pending-ack table, under the tx of that call.
C19_RegisteredBeforeSent ==
    \A c \in Calls :
        (calls[c].pc = "await" /\ calls[c].ack \notin arrived) =>
            /\ calls[c].ack \in DOMAIN ack_message
            /\ ack_message[calls[c].ack] = c

\* a reply that arrived right after the transmission found its waiter
C19_Witness ==
    \E c \in Calls : /\ calls[c].pc = "await" /\ ~calls[c].timer
                     /\ calls[c].chan.st = "sent"
                     /\ calls[c].chan.from = calls[c].ack

(* --------------------------- event dispatch ---------------------------- *)
\* a handler future has completed for an event that bore an ack id
DoneAcked == done.st = "done" /\ done.ack.some

\* C7: when the handler of an event with an ack id returns Ack::None, one
\* ack packet with that id, an empty object and no binary frame is sent.
C7_NoneAcksEmptyObject ==
    (DoneAcked /\ done.result.kind = "None") =>
        /\ Len(done.out) = 1
        /\ done.out[1].ack = done.ack.id
        /\ done.out[1].data = EmptyObject
        /\ done.out[1].nbin = 0
        /\ done.out[1].bin.frames = <<>>

\* what C8 says of the packets sent for a handler result with a payload
OneAckWith(out, id, v, nbin, frames) ==
    /\ Len(out) = 1
    /\ out[1].ack = id
    /\ out[1].data = v
    /\ out[1].nbin = nbin
    /\ out[1].bin = frames

\* C8 as stated: a handler result with a payload gives exactly one ack packet
\* with the ack id of the event: Data the serialized data without frames, Bin
\* an empty object with the frames, DataBin the serialized data with the
\* frames, the frame count being the length of the frame list; an event
\* without ack id gives no packet.
C8_AckCarriesResult ==
    done.st = "done" =>
        /\ ~done.ack.some => done.out = <<>>
        /\ (done.ack.some /\ done.result.kind = "Data") =>
              OneAckWith(done.out, done.ack.id, ToValue(done.result.data), 0, NoBin)
        /\ (done.ack.some /\ done.result.kind = "Bin") =>
              OneAckWith(done.out, done.ack.id, EmptyObject,
                         Len(done.result.bin), SomeBin(done.result.bin))
        /\ (done.ack.some /\ done.result.kind = "DataBin") =>
              OneAckWith(done.out, done.ack.id, ToValue(done.result.data),
                         Len(done.result.bin), SomeBin(done.result.bin))

\* C8, amended: the same when the returned data serialize to JSON; when they
\* do not, no packet is sent.
C8_AckCarriesSerializableResult ==
    done.st = "done" =>
        /\ ~done.ack.some => done.out = <<>>
        /\ (done.ack.some /\ done.result.kind = "Data") =>
              IF ToValueOk(done.result.data)
              THEN OneAckWith(done.out, done.ack.id, JNum(done.result.data.n), 0, NoBin)
              ELSE done.out = <<>>
        /\ (done.ack.some /\ done.result.kind = "Bin") =>
              OneAckWith(done.out, done.ack.id, EmptyObject,
                         Len(done.result.bin), SomeBin(done.result.bin))
        /\ (done.ack.some /\ done.result.kind = "DataBin") =>
              IF ToValueOk(done.result.data)
              THEN OneAckWith(done.out, done.ack.id, JNum(done.result.data.n),
                              Len(done.result.bin), SomeBin(done.result.bin))
              ELSE done.out = <<>>

\* a handler returned data and two frames for an event with an ack id
C8_Witness ==
    /\ DoneAcked /\ done.result.kind = "DataBin"
    /\ Len(done.result.bin) = 2 /\ Len(done.out) = 1

\* C9: when the handler of an event with an ack id completes with an error,
\* no ack packet is sent, and the dispatch that started the handler returned
\* success.
C9_ErrorSuppressesAck ==
    /\ []((DoneAcked /\ done.result.kind = "Err") => done.out = <<>>)
    /\ [][BagCardinality(tasks') > BagCardinality(tasks) => recv_ret' = "Ok"]_vars

\* a handler failed on an event with an ack id
C9_Witness == DoneAcked /\ done.result.kind = "Err"

\* an event or binary event named e is dispatched
RecvEventOf(e) ==
    \E v \in EventData, ack \in EventAcks :
        recv_event(e, v, ack) \/ recv_bin_event(e, v, <<Frame>>, ack)

\* C10: dispatching an event whose name has no handler returns success,
\* starts no handler, sends no packet and leaves the handler table, the
\* pending-ack table and the ack-id counter as they were.
C10_UnhandledEventNoEffect ==
    [][\A e \in Events : (e \notin DOMAIN message_handlers /\ RecvEventOf(e)) =>
          /\ recv_ret' = "Ok"
          /\ UNCHANGED <<message_handlers, ack_message, ack_counter, calls,
                         tasks, done>>]_vars

\* an event without handler was dispatched on a connection that has a handler
\* of another name and a pending ack: no handler was ever started
C10_Witness ==
    /\ recv_ret = "Ok" /\ DOMAIN message_handlers = {"e2"}
    /\ tasks = EmptyBag /\ done = NoDone /\ ack_message # <<>>

\* an event is dispatched to a handler and the handler starts
Dispatchable(e) ==
    \E v \in EventData :
        ENABLED (/\ recv_event(e, v, SomeAck(1))
                 /\ BagCardinality(tasks') > BagCardinality(tasks))

\* C13: while handlers run, an event can be dispatched to a handler, and
\* each running handler can complete and send its ack whatever the others do:
\* no handler has to finish before another one's ack is sent.
C13_NoHeadOfLineBlocking ==
    \A t \in BagToSet(tasks) :
        /\ \A res \in HandlerResults : ENABLED Complete(t, res)
        /\ BagCardinality(tasks) < MaxTasks =>
              \A e \in DOMAIN message_handlers : Dispatchable(e)

\* the ack of one event was sent while the handler of another event with an
\* ack id is still running
C13_Witness ==
    /\ DoneAcked /\ Len(done.out) = 1
    /\ \E t \in BagToSet(tasks) : t.ack.some

\* neither the payload nor, when it is a list of one element, that element
\* has the shape
Undeserializable(v, shape) ==
    /\ ~FromValueOk(v, shape)
    /\ ~(v.type = "Array" /\ Len(v.items) = 1 /\ FromValueOk(v.items[1], shape))

\* an event named e with payload v is dispatched
DispatchOf(e, v) ==
    \E ack \in EventAcks : recv_event(e, v, ack) \/ recv_bin_event(e, v, <<Frame>>, ack)

\* C14: a dispatch whose payload cannot be deserialized into the parameter of
\* the handler returns an error; a dispatch that returns an error starts no
\* handler and sends no ack; no handler runs on a parameter that has not the
\* shape it declares.
C14_DeserializationErrorSurfaces ==
    [][/\ \A e \in DOMAIN message_handlers, v \in EventData :
             (Undeserializable(v, ParamShape(message_handlers[e])) /\ DispatchOf(e, v))
                 => recv_ret' = "Err"
       /\ \A e \in Events : (RecvEventOf(e) /\ recv_ret' = "Err") =>
             tasks' = tasks /\ done' = done
       /\ \A t \in BagToSet(tasks') : FromValueOk(t.param, ParamShape(t.cb))]_vars

\* a dispatch failed on the payload: no handler was ever started
C14_Witness ==
    recv_ret = "Err" /\ tasks = EmptyBag /\ done = NoDone

\* the parameter shapes that are scalar
IsScalar(shape) == shape = "i64"

\* what C15 says is handed to deserialization
HandedOver(v, shape) ==
    IF v.type = "Array" /\ Len(v.items) = 1 /\ IsScalar(shape) THEN v.items[1] ELSE v

\* C15: the payload is unwrapped to its single element exactly when it is a
\* list of one element and the handler declares a scalar; in every other case
\* it is deserialized as received.
C15_UnwrapOnlyForScalar ==
    [][\A e \in DOMAIN message_handlers, v \in EventData, ack \in EventAcks,
          p \in {NoBin, SomeBin(<<Frame>>)} :
          RecvEventBody(e, v, p, ack) =>
              LET cb == message_handlers[e]
                  given == HandedOver(v, ParamShape(cb))
              IN IF FromValueOk(given, ParamShape(cb))
                 THEN /\ recv_ret' = "Ok"
                      /\ tasks' = tasks (+) SetToBag({[cb |-> cb, param |-> given,
                                                       bin |-> p, ack |-> ack]})
                 ELSE recv_ret' = "Err"]_vars

\* C16: the table holds for each name the callback of the on_event call
\* that wrote it last, and nothing for the other names; a dispatch of e leaves
\* the table and starts at most one handler, the one of that last call.
C16_OneHandlerPerName ==
    /\ [](message_handlers = registered)
    /\ [][\A e \in Events : RecvEventOf(e) =>
             /\ message_handlers' = message_handlers
             /\ \/ tasks' = tasks
                \/ /\ e \in DOMAIN registered
                   /\ \E t \in BagToSet(tasks') :
                         /\ t.cb = registered[e]
                         /\ tasks' = tasks (+) SetToBag({t})]_vars

\* the only name with a handler was registered twice: a handler of the first
\* callback still runs, one of the second was started after the replacement
C16_Witness ==
    /\ DOMAIN message_handlers = {"e1"} /\ message_handlers["e1"] = "h2"
    /\ \E t, u \in BagToSet(tasks) : t.cb = "h1" /\ u.cb = "h2"

(* ------------------------------ operators ----------------------------- *)
\* the rooms the to() calls (the except() calls) of the chain were given, in
\* the order given
RECURSIVE RoomsGiven(_, _)
RoomsGiven(op, ch) ==
    IF ch = <<>> THEN <<>>
    ELSE RoomsGiven(op, SubSeq(ch, 1, Len(ch) - 1))
            \o (IF ch[Len(ch)].op = op THEN ch[Len(ch)].rooms ELSE <<>>)

\* C12: after any chain of to and except calls the rooms list and the except
\* list hold each room given once, in the order of its first occurrence in
\* the whole chain.
C12_RoomsDeduplicated ==
    /\ opts.rooms = Unique(RoomsGiven("to", chain))
    /\ opts.except = Unique(RoomsGiven("except", chain))

\* the durations of the timeout calls of the chain, in order
TimeoutsGiven ==
    SelectSeq(chain, LAMBDA c : c.op = "timeout")

\* C20: the flag set holds no Timeout flag when the chain has no timeout
\* call, and else exactly the one of the last timeout call.
C20_SingleTimeoutFlag ==
    {f \in opts.flags : f.kind = "Timeout"} =
        IF TimeoutsGiven = <<>> THEN {}
        ELSE {TimeoutFlag(TimeoutsGiven[Len(TimeoutsGiven)].d)}

====
